---- MODULE Spec2Model ----
(***************************************************************************)
(* HALbridge sandboxed code-execution core (src/modules/code.py): the      *)
(* configuration and policy, the preflight scan, the wrapper, the child    *)
(* process and the two entry points run_snippet and run_file.              *)
(*                                                                         *)
(* Source text is a list of lines, each line a list of lexical tokens; a   *)
(* word token stands for a maximal run of word characters, every other     *)
(* token for one non-word character.  str.splitlines and "\n".join are the *)
(* list structure itself.                                                  *)
(***************************************************************************)
EXTENDS Integers, Sequences, FiniteSets, TLC

\* ------------------------------------------------------------------ bounds

\* Leading print lines in front of the statement under test.
MaxPad == 1

\* --------------------------------------------------------------- state

VARIABLES
    cfg_file,     \* CFG_PATH on disk
    os_environ,   \* the parent's os.environ
    modules,      \* the optional collaborators present
    request,      \* the call the caller issues
    pc,           \* where the call is
    cfg,          \* the call's loaded configuration
    prof,         \* the call's profile name
    policy,       \* the call's SecurityPolicy
    code_path,    \* the path handed to the wrapper
    wp,           \* the wrapper's path
    uuids,        \* uuid4() values drawn so far
    tmp,          \* TMP_DIR: file name -> content
    child,        \* the child process
    spawned,      \* children spawned
    raw,          \* _execute_user_code's (rc, out, err)
    result,       \* the dict returned to the caller
    exc,          \* the exception raised to the caller
    event_log,    \* LOG_FILE
    bus,          \* BUS._history
    heal_log,     \* auto_heal's failure log
    registry,     \* code_registry's records
    other,        \* a second run_snippet call, issued from another thread
    rps           \* gpt_chat_v3.run_python_script around a run_file call

vars == << cfg_file, os_environ, modules, request, pc, cfg, prof, policy, code_path,
           wp, uuids, tmp, child, spawned, raw, result, exc, event_log, bus,
           heal_log, registry, other, rps >>

\* ------------------------------------------------------- JSON-like values

Dict(f) == [t |-> "dict", v |-> f]
List(s) == [t |-> "list", v |-> s]
Str(s) == [t |-> "str", v |-> s]
Int_(n) == [t |-> "int", v |-> n]

IsDict(x) == x.t = "dict"

exec_timeout_sec == 8
gen_timeout_sec == 20
token_budget == 2000

DEFAULT_CFG ==
    Dict([ exec_timeout_sec |-> Int_(exec_timeout_sec),
           gen_timeout_sec |-> Int_(gen_timeout_sec),
           token_budget |-> Int_(token_budget),
           profile |-> Str("headless"),
           policy_overrides |-> Dict([
               headless |-> Dict([
                   blocked_imports |->
                       List(<<"matplotlib", "tkinter", "pygame", "requests", "socket">>),
                   blocked_calls |-> List(<<"os.system">>) ]),
               iot |-> Dict([
                   blocked_imports |->
                       List(<<"matplotlib", "tkinter", "pygame", "requests", "socket">>),
                   blocked_calls |-> List(<<"os.system">>) ]),
               analysis |-> Dict([
                   blocked_imports |-> List(<<"tkinter", "pygame", "socket">>),
                   blocked_calls |-> List(<<"os.system">>) ]) ]) ])

\* dict.get(key, default) on the function under a Dict
Get(f, k, default) == IF k \in DOMAIN f THEN f[k] ELSE default

\* mutant: dict.update, an override key replaces the whole default subtree
deep_merge_Shallow(dst, src) ==
    [k \in (DOMAIN dst) \cup (DOMAIN src) |->
        IF k \in DOMAIN src THEN src[k] ELSE dst[k]]

RECURSIVE deep_merge(_, _)
deep_merge(dst, src) ==
    [k \in (DOMAIN dst) \cup (DOMAIN src) |->
        IF k \notin DOMAIN src THEN dst[k]
        ELSE IF k \in DOMAIN dst /\ IsDict(src[k]) /\ IsDict(dst[k])
             THEN Dict(deep_merge(dst[k].v, src[k].v))
             ELSE src[k]]

\* The persisted file: absent, unparsable, or a JSON value.
CfgAbsent == [state |-> "absent", data |-> Dict(<<>>)]
CfgMalformed == [state |-> "malformed", data |-> Dict(<<>>)]
CfgJson(d) == [state |-> "json", data |-> d]

\* _load_cfg: the configuration a request works with.  A JSON value that is
\* not an object is either falsy ("data or {}") or has no items() and lands in
\* the except branch: the defaults both ways.
_load_cfg(file) ==
    IF file.state = "absent" THEN DEFAULT_CFG
    ELSE IF file.state = "malformed" THEN DEFAULT_CFG
    ELSE IF ~IsDict(file.data) THEN DEFAULT_CFG
    ELSE Dict(deep_merge(DEFAULT_CFG.v, file.data.v))

\* line 99 stands before the try: a missing file that cannot be created
\* raises OSError
CfgWriteFails(file, ok) == file.state = "absent" /\ ~ok

\* _load_cfg's side effect: a missing file is created from the defaults
_load_cfg_file(file) ==
    IF file.state = "absent" THEN CfgJson(DEFAULT_CFG) ELSE file

\* get_profile: override or cfg.get("profile", "headless"); "" is None
get_profile(override, c) ==
    IF override # "" THEN override
    ELSE Get(c.v, "profile", Str("headless")).v

\* _policy_for_profile raises where a value has no get() (AttributeError) or
\* list() is given a number (TypeError)
PolicyRaises(profile, c) ==
    LET po == Get(c.v, "policy_overrides", Dict(<<>>))
    IN \/ ~IsDict(po)
       \/ LET p == Get(po.v, profile, Dict(<<>>))
          IN \/ ~IsDict(p)
             \/ Get(p.v, "blocked_imports", List(<<>>)).t = "int"
             \/ Get(p.v, "blocked_calls", List(<<>>)).t = "int"

\* int(cfg.get("exec_timeout_sec", 8)) raises on text that is not a number
TimeoutRaises(c) == Get(c.v, "exec_timeout_sec", Int_(8)).t # "int"

\* _policy_for_profile
_policy_for_profile(profile, c) ==
    LET po == Get(c.v, "policy_overrides", Dict(<<>>)).v
        p == Get(po, profile, Dict(<<>>)).v
    IN [ blocked_imports |-> Get(p, "blocked_imports", List(<<>>)).v,
         blocked_calls |-> Get(p, "blocked_calls", List(<<>>)).v ]

\* --------------------------------------------------------- source text

NonWord == {" ", ",", ".", "(", ")", ":", ";", "'"}
IsWord(t) == t \notin NonWord

\* the tokens of a dotted name, as re.escape(name) matches them
Toks(name) ==
    CASE name = "os.system" -> <<"os", ".", "system">>
      [] name = "os.popen" -> <<"os", ".", "popen">>
      [] OTHER -> <<name>>

ModOf(c) == Toks(c)[1]
AttrOf(c) == Toks(c)[3]

Pad == <<"print", "(", "'", "a", "'", ")">>

\* the lines a statement is written as
Render(s) ==
    CASE s.op = "import" -> << <<"import", " ", s.a>> >>
      [] s.op = "import_after_comma" ->
            << <<"import", " ", "os", ",", " ", s.a>> >>
      [] s.op = "from_import" ->
            << <<"from", " ", s.a, " ", "import", " ", "x">> >>
      [] s.op = "try_import" ->
            << <<"try", ":">>,
               <<" ", "import", " ", s.a>>,
               <<"except", " ", "ImportError", ":">>,
               <<" ", "pass">> >>
      [] s.op = "try_import_after_comma" ->
            << <<"try", ":">>,
               <<" ", "import", " ", "os", ",", " ", s.a>>,
               <<"except", " ", "ImportError", ":">>,
               <<" ", "pass">> >>
      [] s.op = "dyn_import" ->
            << <<"__import__", "(", "'", s.a, "'", ")">> >>
      [] s.op = "call" ->
            << <<"import", " ", ModOf(s.a), ";", " ",
                 ModOf(s.a), ".", AttrOf(s.a), "(", ")">> >>
      [] s.op = "indirect_call" ->
            << <<"getattr", "(", "__import__", "(", "'", ModOf(s.a), "'", ")",
                 ",", " ", "'", AttrOf(s.a), "'", ")", "(", ")">> >>
      [] s.op = "print" -> <<Pad>>
      [] s.op = "loop" -> << <<"while", " ", "True", ":", " ", "pass">> >>
      [] s.op = "sys_exit" ->
            << <<"raise", " ", "SystemExit", "(", s.a, ")">> >>
      [] OTHER -> << <<"raise", " ", s.a>> >>

St(op, a) == [op |-> op, a |-> a]

\* the statements of a program: pad print lines, then one statement
Body(p) == [i \in 1..p.pad |-> St("print", "a")] \o <<p.stmt>>

RECURSIVE Flatten(_)
Flatten(ss) == IF ss = <<>> THEN <<>> ELSE Render(Head(ss)) \o Flatten(Tail(ss))

\* the program's text, split into lines
Text(p) == Flatten(Body(p))

\* ----------------------------------------------------------- preflight

RawRec(kind, name, line, exctype) ==
    [kind |-> kind, name |-> name, line |-> line, exc |-> exctype]

\* toks occurs in L starting at position i
SubAt(L, i, toks) ==
    /\ i + Len(toks) - 1 <= Len(L)
    /\ \A k \in 1..Len(toks) : L[i + k - 1] = toks[k]

\* re.search(rf"\b(import|from)\s+{re.escape(m)}\b", L)
ImportMatch(L, m) ==
    \E i \in 1..Len(L) :
        /\ L[i] \in {"import", "from"}
        /\ (i = 1 \/ ~IsWord(L[i - 1]))
        /\ \E j \in (i + 2)..Len(L) :
              /\ \A k \in (i + 1)..(j - 1) : L[k] = " "
              /\ SubAt(L, j, Toks(m))
              /\ LET e == j + Len(Toks(m)) IN e > Len(L) \/ ~IsWord(L[e])

\* re.search(rf"{re.escape(c)}\s*\(", L)
CallMatch(L, c) ==
    \E i \in 1..Len(L) :
        /\ SubAt(L, i, Toks(c))
        /\ \E j \in (i + Len(Toks(c)))..Len(L) :
              /\ \A k \in (i + Len(Toks(c)))..(j - 1) : L[k] = " "
              /\ L[j] = "("

RECURSIVE ImportFindings(_, _, _)
ImportFindings(L, i, ms) ==
    IF ms = <<>> THEN <<>>
    ELSE (IF ImportMatch(L, Head(ms))
          THEN <<RawRec("SandboxViolation: blocked import", Head(ms), i, "")>>
          ELSE <<>>) \o ImportFindings(L, i, Tail(ms))

RECURSIVE CallFindings(_, _, _)
CallFindings(L, i, cs) ==
    IF cs = <<>> THEN <<>>
    ELSE (IF CallMatch(L, Head(cs))
          THEN <<RawRec("SandboxViolation: blocked call", Head(cs), i, "")>>
          ELSE <<>>) \o CallFindings(L, i, Tail(cs))

RECURSIVE ScanFrom(_, _, _)
ScanFrom(lines, i, pol) ==
    IF i > Len(lines) THEN <<>>
    ELSE ImportFindings(lines[i], i, pol.blocked_imports)
         \o CallFindings(lines[i], i, pol.blocked_calls)
         \o ScanFrom(lines, i + 1, pol)

\* mutant: the line counter is kept from one request to the next
preflight_check_Remembering(lines, pol) ==
    LET fs == ScanFrom(lines, 1, pol)
    IN [i \in 1..Len(fs) |-> [fs[i] EXCEPT !.line = @ + Len(event_log)]]

\* preflight_check(code_str, policy)
preflight_check(lines, pol) == ScanFrom(lines, 1, pol)

\* mutant: the findings are computed and the request runs all the same
Passes_Always(findings) == TRUE

\* "if findings:" (lines 260, 339), negated: the request goes on to run
Passes(findings) == findings = <<>>

\* ------------------------------------------------------- host environment

\* Variable names are character sequences, so that str.startswith is computed.
N_PATH == <<"P", "A", "T", "H">>
N_HOME == <<"H", "O", "M", "E">>
N_LANG == <<"L", "A", "N", "G">>
N_LC_ALL == <<"L", "C", "_", "A", "L", "L">>
N_LANGUAGE == <<"L", "A", "N", "G", "U", "A", "G", "E">>
N_API_KEY == <<"A", "P", "I", "_", "K", "E", "Y">>
N_PYTHONUNBUFFERED ==
    <<"P", "Y", "T", "H", "O", "N", "U", "N", "B", "U", "F", "F", "E", "R", "E", "D">>

startswith(k, pre) == Len(k) >= Len(pre) /\ SubSeq(k, 1, Len(pre)) = pre

\* mutant: the locale prefix is tested as "LANG" and lets LANGUAGE through
KeepVar_LangPrefix(k) ==
    k \in {N_PATH, N_HOME} \/ startswith(k, N_LANG) \/ startswith(k, <<"L", "C", "_">>)

\* the dict comprehension's filter in _minimal_env
KeepVar(k) == k \in {N_PATH, N_HOME, N_LANG} \/ startswith(k, <<"L", "C", "_">>)

\* _minimal_env()
_minimal_env(environ) ==
    [k \in {x \in DOMAIN environ : KeepVar(x)} \cup {N_PYTHONUNBUFFERED} |->
        IF k = N_PYTHONUNBUFFERED THEN "1" ELSE environ[k]]

\* parent environments: PATH always set, the others optional; LC_ALL and
\* API_KEY take either of two values
AllEnvs ==
    { e \in UNION { [D -> {"1", "2"}] :
                     D \in { S \cup {N_PATH} :
                              S \in SUBSET {N_HOME, N_LANG, N_LC_ALL, N_LANGUAGE,
                                            N_API_KEY} } } :
        \A k \in DOMAIN e : k \notin {N_LC_ALL, N_API_KEY} => e[k] = "1" }

\* -------------------------------------------------------------- inputs

Statements ==
    { St("import", m) : m \in {"socket", "matplotlib", "json"} }
    \cup { St(op, "socket") :
             op \in {"import_after_comma", "from_import", "try_import",
                      "try_import_after_comma", "dyn_import"} }
    \cup { St("dyn_import", "os"),
           St("call", "os.system"),
           St("indirect_call", "os.system"),
           St("indirect_call", "os.popen"),
           St("print", "a"),
           St("loop", ""),
           St("sys_exit", "124"),
           St("raise", "ValueError"),
           St("raise", "ImportError") }

Programs == [pad : 0..MaxPad, stmt : Statements]

NoProgram == [pad |-> 0, stmt |-> St("none", "")]

\* the caller's prompt: absent, or present with the keywords it contains
NoPrompt == [given |-> FALSE, has |-> {}]
Prompt(words) == [given |-> TRUE, has |-> words]
Prompts == {NoPrompt, Prompt({"csv"}), Prompt({"hello"})}

\* the caller's profile argument; "" is None.  run_file's path is a python
\* file ("file"), a directory ("dir") or nothing ("missing").
ProfileArgs == {"", "analysis", "bogus"}

Requests ==
    { [src |-> "snippet", code |-> c, prompt |-> q, profile |-> a, path |-> ""] :
        c \in Programs, q \in Prompts, a \in ProfileArgs }
    \cup
    { [src |-> "file", code |-> c, prompt |-> NoPrompt, profile |-> a, path |-> "file"] :
        c \in Programs, a \in ProfileArgs }
    \cup
    { [src |-> "file", code |-> NoProgram, prompt |-> NoPrompt, profile |-> a, path |-> k] :
        k \in {"dir", "missing"}, a \in ProfileArgs }

\* persisted configuration files
PopenOverride ==
    Dict([policy_overrides |-> Dict([headless |-> Dict([
        blocked_calls |-> List(<<"os.system", "os.popen">>) ]) ]) ])

CfgFiles == {CfgAbsent, CfgJson(PopenOverride)}

ImportsOverride ==
    Dict([policy_overrides |-> Dict([analysis |-> Dict([
        blocked_imports |-> List(<<"socket">>) ]) ]) ])

\* a module the wrapper's own first line imports, blocked by configuration
OsBlockedOverride ==
    Dict([policy_overrides |-> Dict([headless |-> Dict([
        blocked_imports |-> List(<<"os", "socket">>) ]) ]) ])

\* every kind of persisted file: also unparsable text, JSON that is not an
\* object, an empty object, and objects with values of the wrong shape
AllCfgFiles ==
    CfgFiles \cup
    { CfgMalformed,
      CfgJson(Dict(<<>>)),
      CfgJson(List(<<"x">>)),
      CfgJson(ImportsOverride),
      CfgJson(OsBlockedOverride),
      CfgJson(Dict([exec_timeout_sec |-> Int_(3)])),
      CfgJson(Dict([policy_overrides |-> Str("none")])),
      CfgJson(Dict([exec_timeout_sec |-> Str("soon")])) }

\* the optional collaborators that imported (code.py lines 23-51)
Collaborators == {"BUS", "intelligence", "auto_heal", "code_registry", "integration"}
ModuleSets == {Collaborators, {}}

InitEnvs ==
    { e \in AllEnvs : DOMAIN e = {N_PATH, N_LC_ALL, N_API_KEY} /\ e[N_LC_ALL] = "1" }

\* modules the host can import, and those the wrapper's own imports load
Installed == {"json", "socket", "os", "posix"}
Preloaded == {"os", "posix"}

\* ------------------------------------------------------ intelligence.py

\* analyze_prompt: the task type by the first keyword group that matches
task_type(q) ==
    IF q.has \cap {"csv", "xlsx", "analiza", "wykres", "pandas"} # {} THEN "data"
    ELSE IF q.has \cap {"http", "url", "pobierz", "api", "network", "siec"} # {}
         THEN "network"
    ELSE IF q.has \cap {"mqtt", "shelly", "sensor", "gpio", "iot"} # {} THEN "iot"
    ELSE IF q.has \cap {"ascii", "tekst", "string", "markdown"} # {} THEN "text"
    ELSE IF q.has \cap {"matplotlib", "plot", "image", "wykres"} # {} THEN "viz"
    ELSE IF q.has \cap {"system", "bash", "os.system"} # {} THEN "system"
    ELSE "text"

choose_profile(tt) ==
    CASE tt = "data" -> "analysis"
      [] tt = "iot" -> "iot"
      [] OTHER -> "headless"

\* validate_result: ok and some stdout (the core never sets "job")
validate_result(res) == res.ok /\ res.stdout # <<>>

\* the substrings suggest_fix looks for, by what the error text holds
TextHas(rec, needle) == rec.exc = needle

suggest_fix(err) ==
    IF \E i \in 1..Len(err) : TextHas(err[i], "SyntaxError") THEN "syntax"
    ELSE IF \E i \in 1..Len(err) : TextHas(err[i], "ModuleNotFoundError") THEN "missing"
    ELSE IF \E i \in 1..Len(err) : TextHas(err[i], "TimeoutExpired") THEN "timeout"
    ELSE "unknown"

\* ------------------------------------------------------------ defaults

NoPath == <<"none", 0>>
NoPolicy == [blocked_imports |-> <<>>, blocked_calls |-> <<>>]
NoRaw == [rc |-> 0, out |-> <<>>, err |-> <<>>]
NoResult ==
    [set |-> FALSE, ok |-> FALSE, stdout |-> <<>>, stderr |-> <<>>, returncode |-> 0,
     profile |-> "", valid |-> "unset", suggestion |-> ""]
NoWrapper == [blocked |-> {}, calls |-> {}, path |-> NoPath]
NoChild ==
    [st |-> "none", ip |-> 0, out |-> <<>>, err |-> <<>>, rc |-> 0, env |-> <<>>,
     limits |-> {}, wrapper |-> NoWrapper, finder |-> FALSE, guarded |-> FALSE,
     replaced |-> {},
     sys_modules |-> {}, performed |-> {}, code |-> NoProgram]

Range(s) == { s[i] : i \in 1..Len(s) }

\* a file of TMP_DIR
FileOf(kind, code, wrapper) == [kind |-> kind, code |-> code, wrapper |-> wrapper]

\* Path.write_text: the file written, or an OSError with or without the file
\* left behind (the open succeeded and the write did not)
WriteOutcomes == {"ok", "error_no_file", "error_partial_file"}

write_text(fs, path, content, outcome) ==
    CASE outcome = "ok" -> [n \in DOMAIN fs \cup {path} |->
                               IF n = path THEN content ELSE fs[n]]
      [] outcome = "error_partial_file" ->
            [n \in DOMAIN fs \cup {path} |->
                IF n = path THEN FileOf("partial", NoProgram, NoWrapper) ELSE fs[n]]
      [] OTHER -> fs

\* mutant: the artifact is named after its kind alone
TmpName_Fixed(kind, n) == <<kind, 1>>

\* TMP_DIR / f"{kind}_{uuid.uuid4().hex}.py": a name no earlier call of
\* uuid4 gave
TmpName(kind, n) == <<kind, n + 1>>

\* Path.unlink(missing_ok=True)
unlink(fs, path) == [n \in DOMAIN fs \ {path} |-> fs[n]]

\* mutant: the payload's rc is left at its initial value
Msg_NoRc(topic, src, profile, rc) ==
    [topic |-> topic, src |-> src, profile |-> profile, rc |-> 0]

\* BUS.publish: the message joins the history before the log is written
Msg(topic, src, profile, rc) == [topic |-> topic, src |-> src, profile |-> profile, rc |-> rc]

publish(b, m) == IF "BUS" \in modules THEN Append(b, m) ELSE b

\* mutant: the record is written before the return code is known
LogRec_NoReturncode(src, profile, rc, out, err) ==
    [src |-> src, profile |-> profile, returncode |-> 0,
     stdout_len |-> Len(out), stderr_len |-> Len(err)]

\* _log_event: one record appended, or nothing when the append fails
LogRec(src, profile, rc, out, err) ==
    [src |-> src, profile |-> profile, returncode |-> rc,
     stdout_len |-> Len(out), stderr_len |-> Len(err)]

_log_event(log, rec, ok) == IF ok THEN Append(log, rec) ELSE log

\* the dict a call returns
Result(ok, out, err, rc, profile) ==
    [set |-> TRUE, ok |-> ok, stdout |-> out, stderr |-> err, returncode |-> rc,
     profile |-> profile, valid |-> "unset", suggestion |-> ""]

\* mutant: a rejection reported as an ordinary failure
Rejected_AsFailure(err, profile) == Result(FALSE, <<>>, err, 1, profile)

\* the early return of a rejected request (lines 262-265, 332-335, 341-344)
Rejected(err, profile) == Result(FALSE, <<>>, err, 2, profile)

\* mutant: only a timeout counts as a failure
RunResult_OkUnlessTimeout(r, profile) == Result(r.rc # 124, r.out, r.err, r.rc, profile)

\* the result of a run (lines 272-280, 349-357)
RunResult(r, profile) == Result(r.rc = 0, r.out, r.err, r.rc, profile)

\* lines 294-300, 367-373: validation and suggestion, dropped when they raise
Validated(res, ok) ==
    IF "intelligence" \notin modules \/ ~ok THEN res
    ELSE LET v == validate_result(res)
         IN [res EXCEPT !.valid = IF v THEN "True" ELSE "False",
                        !.suggestion = IF ~v /\ res.stderr # <<>>
                                       THEN suggest_fix(res.stderr) ELSE ""]

\* ------------------------------------------------------------- wrapper

\* mutant: the wrapper embeds empty sets
_wrapper_source_Unblocked(user_code_path, pol) ==
    [blocked |-> {}, calls |-> {}, path |-> user_code_path]

\* mutant: the wrapper's sets are resolved again from the persisted file
_wrapper_source_Reloaded(user_code_path, pol) ==
    LET now == _policy_for_profile(prof, _load_cfg(cfg_file))
    IN [blocked |-> Range(now.blocked_imports),
        calls |-> Range(now.blocked_calls),
        path |-> user_code_path]

\* _wrapper_source: the sets and the path the wrapper text embeds
_wrapper_source(user_code_path, pol) ==
    [blocked |-> Range(pol.blocked_imports),
     calls |-> Range(pol.blocked_calls),
     path |-> user_code_path]

\* the resource ceilings subprocess.run's arguments put on the child: it is
\* given no preexec_fn, and the wrapper text sets none
SpawnLimits == {}

\* the child as subprocess.run starts it
NewChild(w, environ) ==
    [NoChild EXCEPT !.st = "boot", !.wrapper = w, !.env = _minimal_env(environ),
                    !.limits = SpawnLimits]

\* the callables the wrapper replaces by a raising stand-in (lines 195-198)
Replaced(calls) == IF "os.system" \in calls THEN {"os.system"} ELSE {}

\* the text runpy.run_path reads
ReadCode(path) == IF path[1] = "user" THEN tmp[path].code ELSE request.code

\* BlockedFinder.find_spec's root
Root(fullname) == Toks(fullname)[1]

\* an import statement in the child: sys.modules first, then the finders
ImportAttempt(c, m) ==
    IF m \in c.sys_modules THEN "ok"
    ELSE IF c.finder /\ Root(m) \in c.wrapper.blocked THEN "blocked"
    ELSE IF m \in Installed THEN "ok"
    ELSE "notfound"

Exit(c, rc, errs) == [c EXCEPT !.st = "exited", !.rc = rc, !.err = c.err \o errs]

Advance(c) == [c EXCEPT !.ip = c.ip + 1]

\* the wrapper's except ImportError branch (line 202)
ImportErrorExit(c, m, how) ==
    IF how = "blocked"
    THEN Exit(c, 2, <<RawRec("SandboxViolation: blocked import", Root(m), 0, "")>>)
    ELSE Exit(c, 2, <<RawRec("No module named", m, 0, "")>>)

\* what line 202 writes for an ImportError without a message: str(e) + "\n"
EmptyLine == RawRec("", "", 0, "")

\* the wrapper's except Exception branch (line 204)
TracebackExit(c, kind, name, exctype) == Exit(c, 1, <<RawRec(kind, name, 0, exctype)>>)

\* one statement of the target, run under the wrapper
Execute(c, s) ==
    CASE s.op = "print" -> Advance([c EXCEPT !.out = Append(c.out, s.a)])
      [] s.op \in {"import", "import_after_comma", "from_import", "dyn_import"} ->
            LET how == ImportAttempt(c, s.a)
            IN IF how = "ok"
               THEN Advance([c EXCEPT !.sys_modules = c.sys_modules \cup {s.a}])
               ELSE ImportErrorExit(c, s.a, how)
      [] s.op \in {"try_import", "try_import_after_comma"} ->
            IF ImportAttempt(c, s.a) = "ok"
            THEN Advance([c EXCEPT !.sys_modules = c.sys_modules \cup {s.a}])
            ELSE Advance(c)
      [] s.op \in {"call", "indirect_call"} ->
            IF s.a \in c.replaced
            THEN TracebackExit(c, "SandboxViolation: blocked call", s.a, "RuntimeError")
            ELSE Advance([c EXCEPT !.performed = c.performed \cup {s.a}])
      [] s.op = "sys_exit" -> Exit(c, 124, <<>>)
      [] s.op = "raise" /\ s.a = "ImportError" -> Exit(c, 2, <<EmptyLine>>)
      [] OTHER -> TracebackExit(c, "Traceback", "", s.a)

\* ------------------------------------------------------------ actions

\* no second call
NoOther ==
    [pc |-> "none", code |-> NoProgram, code_path |-> NoPath, wp |-> NoPath,
     wrapper |-> NoWrapper, ran |-> NoProgram, policy |-> NoPolicy,
     findings |-> <<>>]

\* no run_python_script around the call
NoRps == [pc |-> "none", direct |-> 0]

InitAll(files, envs, mods, reqs, others, scripts) ==
    /\ rps \in scripts
    /\ other \in others
    /\ cfg_file \in files
    /\ os_environ \in envs
    /\ modules \in mods
    /\ request \in reqs
    /\ pc = "idle"
    /\ cfg = DEFAULT_CFG
    /\ prof = ""
    /\ policy = NoPolicy
    /\ code_path = NoPath
    /\ wp = NoPath
    /\ uuids = 0
    /\ tmp = <<>>
    /\ child = NoChild
    /\ spawned = 0
    /\ raw = NoRaw
    /\ result = NoResult
    /\ exc = ""
    /\ event_log = <<>>
    /\ bus = <<>>
    /\ heal_log = <<>>
    /\ registry = <<>>

InitCall(files, envs, mods, reqs, others) ==
    InitAll(files, envs, mods, reqs, others, {NoRps})

InitWith(files, envs, mods, reqs) == InitCall(files, envs, mods, reqs, {NoOther})

Init == InitWith(CfgFiles, InitEnvs, ModuleSets, Requests)

\* every parent environment, a few requests
EnvRequests ==
    { r \in Requests :
        /\ r.profile = "" /\ ~r.prompt.given /\ r.code.pad = 0
        /\ r.code.stmt \in {St("print", "a"), St("import", "socket"), St("none", "")} }

InitEnv == InitWith({CfgAbsent}, AllEnvs, {Collaborators}, EnvRequests)

\* every persisted file, a few requests
CfgRequests ==
    { r \in Requests :
        /\ r.profile \in {"", "analysis"} /\ ~r.prompt.given /\ r.code.pad = 0
        /\ r.code.stmt \in {St("print", "a"), St("import", "socket"),
                             St("dyn_import", "os"), St("none", "")} }

InitCfg == InitWith(AllCfgFiles, InitEnvs, {Collaborators}, CfgRequests)

Raise(name) == pc' = "raised" /\ exc' = name

\* a publish whose log append fails raises OSError to its caller
PublishFails(ok) == "BUS" \in modules /\ ~ok

\* run_snippet, lines 234-257
SnippetBegin ==
    /\ pc = "idle" /\ request.src = "snippet"
    /\ \E cfg_ok, intent_ok, start_ok \in BOOLEAN :
        LET c == _load_cfg(cfg_file)
            analysed == "intelligence" \in modules /\ request.prompt.given
            meta_profile == choose_profile(task_type(request.prompt))
            kept == analysed /\ ~PublishFails(intent_ok)
            profile == IF kept THEN meta_profile ELSE request.profile
            b1 == IF analysed
                  THEN publish(bus, Msg("code.intent", "snippet", meta_profile, 0))
                  ELSE bus
            p == get_profile(profile, c)
        IN IF CfgWriteFails(cfg_file, cfg_ok)
           THEN /\ Raise("OSError: write config")
                /\ UNCHANGED << cfg, cfg_file, prof, policy, bus >>
           ELSE /\ cfg' = c
                /\ cfg_file' = _load_cfg_file(cfg_file)
                /\ prof' = p
                /\ IF PolicyRaises(p, c)
                   THEN /\ Raise("AttributeError")
                        /\ bus' = b1
                        /\ policy' = policy
                   ELSE /\ policy' = _policy_for_profile(p, c)
                        /\ bus' = publish(b1, Msg("code.run.start", "snippet", p, 0))
                        /\ IF PublishFails(start_ok)
                           THEN Raise("OSError: bus log")
                           ELSE pc' = "preflight" /\ exc' = exc
    /\ UNCHANGED << rps, other, os_environ, modules, request, code_path, wp, uuids, tmp, child,
                    spawned, raw, result, event_log, heal_log, registry >>

\* run_snippet, lines 259-265: the scan found something
SnippetReject ==
    /\ pc = "preflight" /\ request.src = "snippet"
    /\ LET findings == preflight_check(Text(request.code), policy)
       IN /\ ~Passes(findings)
          /\ \E log_ok, done_ok \in BOOLEAN :
                /\ event_log' = _log_event(event_log,
                                    LogRec("snippet", prof, 2, <<>>, findings), log_ok)
                /\ bus' = publish(bus, Msg("code.run.done", "snippet", prof, 2))
                /\ IF PublishFails(done_ok)
                   THEN Raise("OSError: bus log") /\ result' = result
                   ELSE /\ pc' = "returned" /\ exc' = exc
                        /\ result' = Rejected(findings, prof)
    /\ UNCHANGED << rps, other, cfg_file, os_environ, modules, request, cfg, prof, policy, code_path,
                    wp, uuids, tmp, child, spawned, raw, heal_log, registry >>

\* run_snippet, lines 259-268: the scan found nothing, the snippet is written
SnippetAccept ==
    /\ pc = "preflight" /\ request.src = "snippet"
    /\ Passes(preflight_check(Text(request.code), policy))
    /\ \E w \in WriteOutcomes :
        /\ code_path' = TmpName("user", uuids)
        /\ uuids' = uuids + 1
        /\ tmp' = write_text(tmp, code_path', FileOf("user", request.code, NoWrapper), w)
        /\ IF w = "ok" THEN pc' = "wrapper" /\ exc' = exc
                       ELSE Raise("OSError: write snippet")
    /\ UNCHANGED << rps, other, cfg_file, os_environ, modules, request, cfg, prof, policy, wp, child,
                    spawned, raw, result, event_log, bus, heal_log, registry >>

\* what the finally of run_snippet (lines 313-317) leaves of TMP_DIR
SnippetFinally(fs) == IF request.src = "snippet" THEN unlink(fs, code_path) ELSE fs

\* the timeout argument of lines 271 and 346, then _execute_user_code,
\* lines 210-212
WriteWrapper ==
    /\ pc = "wrapper"
    /\ \E w \in WriteOutcomes :
        IF TimeoutRaises(cfg)
        THEN /\ tmp' = SnippetFinally(tmp)
             /\ Raise("ValueError")
             /\ UNCHANGED << wp, uuids >>
        ELSE /\ wp' = TmpName("wrap", uuids)
             /\ uuids' = uuids + 1
             /\ LET fs == write_text(tmp, wp',
                             FileOf("wrap", NoProgram, _wrapper_source(code_path, policy)), w)
                IN IF w = "ok"
                   THEN tmp' = fs /\ pc' = "spawn" /\ exc' = exc
                   ELSE tmp' = SnippetFinally(fs) /\ Raise("OSError: write wrapper")
    /\ UNCHANGED << rps, other, cfg_file, os_environ, modules, request, cfg, prof, policy, code_path,
                    child, spawned, raw, result, event_log, bus, heal_log, registry >>

\* _execute_user_code, lines 213-222: subprocess.run starts the child, or raises
Spawn ==
    /\ pc = "spawn"
    /\ \/ /\ child' = NewChild(tmp[wp].wrapper, os_environ)
          /\ spawned' = spawned + 1
          /\ pc' = "wait"
          /\ UNCHANGED << tmp, exc >>
       \/ /\ tmp' = SnippetFinally(unlink(tmp, wp))
          /\ Raise("OSError: spawn")
          /\ UNCHANGED << child, spawned >>
    /\ UNCHANGED << rps, other, cfg_file, os_environ, modules, request, cfg, prof, policy, code_path,
                    wp, uuids, raw, result, event_log, bus, heal_log, registry >>

\* mutant: the target is run before the guards are put in place
ChildBoot_RunsTarget ==
    /\ child.st = "boot" /\ ~child.finder
    /\ child' = [child EXCEPT !.st = "run", !.ip = 1,
                              !.sys_modules = Preloaded,
                              !.code = ReadCode(child.wrapper.path)]
    /\ UNCHANGED << rps, other, cfg_file, os_environ, modules, request, pc, cfg, prof, policy,
                    code_path, wp, uuids, tmp, spawned, raw, result, exc, event_log,
                    bus, heal_log, registry >>

\* the wrapper's lines 185-194: its own imports, then the finder is installed
ChildBoot ==
    /\ child.st = "boot" /\ ~child.finder
    /\ child' = [child EXCEPT !.sys_modules = Preloaded,
                              !.finder = TRUE]
    /\ UNCHANGED << rps, other, cfg_file, os_environ, modules, request, pc, cfg, prof, policy,
                    code_path, wp, uuids, tmp, spawned, raw, result, exc, event_log,
                    bus, heal_log, registry >>

\* the wrapper's lines 195-198: the blocked callables are replaced
ChildGuard ==
    /\ child.st = "boot" /\ child.finder /\ ~child.guarded
    /\ child' = [child EXCEPT !.replaced = Replaced(child.wrapper.calls),
                              !.guarded = TRUE]
    /\ UNCHANGED << rps, other, cfg_file, os_environ, modules, request, pc, cfg, prof, policy,
                    code_path, wp, uuids, tmp, spawned, raw, result, exc, event_log,
                    bus, heal_log, registry >>

\* the wrapper's lines 199-200: runpy.run_path reads the target
ChildLoad ==
    /\ child.st = "boot" /\ child.guarded
    /\ child' = [child EXCEPT !.st = "run", !.ip = 1,
                              !.code = ReadCode(child.wrapper.path)]
    /\ UNCHANGED << rps, other, cfg_file, os_environ, modules, request, pc, cfg, prof, policy,
                    code_path, wp, uuids, tmp, spawned, raw, result, exc, event_log,
                    bus, heal_log, registry >>

\* the target's next statement; a loop statement never completes
ChildStep ==
    /\ child.st = "run"
    /\ child.ip <= Len(Body(child.code))
    /\ Body(child.code)[child.ip].op # "loop"
    /\ child' = Execute(child, Body(child.code)[child.ip])
    /\ UNCHANGED << rps, other, cfg_file, os_environ, modules, request, pc, cfg, prof, policy,
                    code_path, wp, uuids, tmp, spawned, raw, result, exc, event_log,
                    bus, heal_log, registry >>

\* the target ran to its end: the wrapper ends, exit status 0
ChildEnd ==
    /\ child.st = "run"
    /\ child.ip > Len(Body(child.code))
    /\ child' = [child EXCEPT !.st = "exited", !.rc = 0]
    /\ UNCHANGED << rps, other, cfg_file, os_environ, modules, request, pc, cfg, prof, policy,
                    code_path, wp, uuids, tmp, spawned, raw, result, exc, event_log,
                    bus, heal_log, registry >>

TimeoutMarker(timeout) == RawRec("Timeout after", "", timeout, "")

\* what _execute_user_code returns on TimeoutExpired (line 225)
TimeoutRaw(c, timeout) == [rc |-> 124, out |-> <<>>, err |-> <<TimeoutMarker(timeout)>>]

\* what _execute_user_code returns when the child exited (line 223)
ExitRaw(c) == [rc |-> c.rc, out |-> c.out, err |-> c.err]

\* mutant: subprocess.run is given no timeout
TimerCanExpire_Never(c) == FALSE

\* subprocess.run(..., timeout=timeout): the timer can run out on a child that
\* has not exited
TimerCanExpire(c) == c.st \in {"boot", "run"}

\* _execute_user_code, lines 224-227: the wall clock ran out, the child is killed
Timeout ==
    /\ pc = "wait"
    /\ TimerCanExpire(child)
    /\ child' = [child EXCEPT !.st = "killed"]
    /\ raw' = TimeoutRaw(child, Get(cfg.v, "exec_timeout_sec", Int_(8)).v)
    /\ tmp' = unlink(tmp, wp)
    /\ pc' = "finish"
    /\ UNCHANGED << rps, other, cfg_file, os_environ, modules, request, cfg, prof, policy, code_path,
                    wp, uuids, spawned, result, exc, event_log, bus, heal_log, registry >>

\* mutant: a child that exited with a failure is started once more
Collect_Retry ==
    /\ pc = "wait"
    /\ child.st = "exited"
    /\ IF child.rc # 0 /\ spawned < 2
       THEN pc' = "spawn" /\ UNCHANGED << raw, tmp >>
       ELSE raw' = ExitRaw(child) /\ tmp' = unlink(tmp, wp) /\ pc' = "finish"
    /\ UNCHANGED << rps, other, cfg_file, os_environ, modules, request, cfg, prof, policy, code_path,
                    wp, uuids, child, spawned, result, exc, event_log, bus, heal_log,
                    registry >>

\* _execute_user_code, lines 223, 226-227: the child exited in time
Collect ==
    /\ pc = "wait"
    /\ child.st = "exited"
    /\ raw' = ExitRaw(child)
    /\ tmp' = unlink(tmp, wp)
    /\ pc' = "finish"
    /\ UNCHANGED << rps, other, cfg_file, os_environ, modules, request, cfg, prof, policy, code_path,
                    wp, uuids, child, spawned, result, exc, event_log, bus, heal_log,
                    registry >>

\* auto_heal.record_failure: the log append, then BUS.publish("code.error");
\* either may raise
HealOutcomes == {"ok", "log_error", "bus_error"}

HealRec(src, rc) == [src |-> src, rc |-> rc]

\* mutant: the second hand-off of run_file (line 381) goes through as well
record_failure_log_Twice(h, rec, outcome) ==
    IF outcome = "log_error" THEN h ELSE Append(Append(h, rec), rec)

record_failure_log(h, rec, outcome) ==
    IF outcome = "log_error" THEN h ELSE Append(h, rec)

record_failure_bus(b, src, outcome) ==
    IF outcome = "log_error" THEN b ELSE publish(b, Msg("code.error", src, "", 0))

HealRaises(outcome) ==
    outcome = "log_error" \/ (outcome = "bus_error" /\ "BUS" \in modules)

RegRec(src, profile, ok) == [src |-> src, profile |-> profile, ok |-> ok]

\* code_registry.save_artifact / register_path, dropped when they raise
Registered(reg, rec, ok) ==
    IF "code_registry" \in modules /\ ok THEN Append(reg, rec) ELSE reg

\* run_snippet, lines 272-317
SnippetFinish ==
    /\ pc = "finish" /\ request.src = "snippet"
    /\ \E log_ok, reg_ok, val_ok, done_ok \in BOOLEAN, h \in HealOutcomes :
        LET res == Validated(RunResult(raw, prof), val_ok)
            b1 == publish(bus, Msg("code.run.done", "snippet", prof, raw.rc))
            heals == "auto_heal" \in modules /\ raw.rc # 0
        IN /\ event_log' = _log_event(event_log,
                               LogRec("snippet", prof, raw.rc, raw.out, raw.err), log_ok)
           /\ registry' = Registered(registry, RegRec("snippet", prof, raw.rc = 0), reg_ok)
           /\ tmp' = unlink(tmp, code_path)
           /\ IF PublishFails(done_ok)
              THEN /\ Raise("OSError: bus log")
                   /\ bus' = b1
                   /\ UNCHANGED << heal_log, result >>
              ELSE /\ pc' = "returned" /\ exc' = exc
                   /\ result' = res
                   /\ heal_log' = IF heals
                                  THEN record_failure_log(heal_log,
                                           HealRec("snippet", raw.rc), h)
                                  ELSE heal_log
                   /\ bus' = IF heals THEN record_failure_bus(b1, "snippet", h) ELSE b1
    /\ UNCHANGED << rps, other, cfg_file, os_environ, modules, request, cfg, prof, policy, code_path,
                    wp, uuids, child, spawned, raw >>

\* run_file, lines 321-327
FileBegin ==
    /\ pc = "idle" /\ request.src = "file"
    /\ \E cfg_ok, start_ok \in BOOLEAN :
        LET c == _load_cfg(cfg_file)
            p == get_profile(request.profile, c)
        IN IF CfgWriteFails(cfg_file, cfg_ok)
           THEN /\ Raise("OSError: write config")
                /\ UNCHANGED << cfg, cfg_file, prof, policy, bus >>
           ELSE /\ cfg' = c
                /\ cfg_file' = _load_cfg_file(cfg_file)
                /\ prof' = p
                /\ IF PolicyRaises(p, c)
                   THEN /\ Raise("AttributeError")
                        /\ UNCHANGED << policy, bus >>
                   ELSE /\ policy' = _policy_for_profile(p, c)
                        /\ bus' = publish(bus, Msg("code.run.start", "file", p, 0))
                        /\ IF PublishFails(start_ok)
                           THEN Raise("OSError: bus log")
                           ELSE pc' = "resolve" /\ exc' = exc
    /\ UNCHANGED << rps, other, os_environ, modules, request, code_path, wp, uuids, tmp, child,
                    spawned, raw, result, event_log, heal_log, registry >>

\* the lines of the early returns of run_file
FileEarly(err) ==
    \E log_ok, done_ok \in BOOLEAN :
        /\ event_log' = _log_event(event_log, LogRec("file", prof, 2, <<>>, err), log_ok)
        /\ bus' = publish(bus, Msg("code.run.done", "file", prof, 2))
        /\ IF PublishFails(done_ok)
           THEN Raise("OSError: bus log") /\ result' = result
           ELSE /\ pc' = "returned" /\ exc' = exc
                /\ result' = Rejected(err, prof)

\* run_file, lines 329-335: nothing at the path
FileMissing ==
    /\ pc = "resolve" /\ request.path = "missing"
    /\ FileEarly(<<RawRec("File not found", request.path, 0, "")>>)
    /\ UNCHANGED << rps, other, cfg_file, os_environ, modules, request, cfg, prof, policy, code_path,
                    wp, uuids, tmp, child, spawned, raw, heal_log, registry >>

\* run_file, line 337: the path exists and cannot be read as text
FileUnreadable ==
    /\ pc = "resolve" /\ request.path = "dir"
    /\ Raise("IsADirectoryError")
    /\ UNCHANGED << rps, other, cfg_file, os_environ, modules, request, cfg, prof, policy, code_path,
                    wp, uuids, tmp, child, spawned, raw, result, event_log, bus,
                    heal_log, registry >>

\* run_file, lines 337-344: the scan found something
FileReject ==
    /\ pc = "resolve" /\ request.path = "file"
    /\ ~Passes(preflight_check(Text(request.code), policy))
    /\ FileEarly(preflight_check(Text(request.code), policy))
    /\ UNCHANGED << rps, other, cfg_file, os_environ, modules, request, cfg, prof, policy, code_path,
                    wp, uuids, tmp, child, spawned, raw, heal_log, registry >>

\* run_file, lines 337-346: the scan found nothing
FileAccept ==
    /\ pc = "resolve" /\ request.path = "file"
    /\ Passes(preflight_check(Text(request.code), policy))
    /\ code_path' = <<"file", 0>>
    /\ pc' = "wrapper"
    /\ UNCHANGED << rps, other, cfg_file, os_environ, modules, request, cfg, prof, policy, wp, uuids,
                    tmp, child, spawned, raw, result, exc, event_log, bus, heal_log,
                    registry >>

\* run_file, lines 347-385.  The hand-off of line 348 is not guarded; the one
\* of line 381 names code_path, which run_file does not define, and its
\* NameError is swallowed before record_failure is entered.
FileFinish ==
    /\ pc = "finish" /\ request.src = "file"
    /\ \E log_ok, reg_ok, val_ok, done_ok \in BOOLEAN, h \in HealOutcomes :
        LET res == Validated(RunResult(raw, prof), val_ok)
            heals == "auto_heal" \in modules /\ raw.rc # 0
            h1 == IF heals THEN record_failure_log(heal_log, HealRec("file", raw.rc), h)
                  ELSE heal_log
            b1 == IF heals THEN record_failure_bus(bus, "file", h) ELSE bus
            b2 == publish(b1, Msg("code.run.done", "file", prof, raw.rc))
        IN /\ heal_log' = h1
           /\ IF heals /\ HealRaises(h)
              THEN /\ Raise("OSError: record_failure")
                   /\ bus' = b1
                   /\ UNCHANGED << event_log, registry, result >>
              ELSE /\ event_log' = _log_event(event_log,
                                      LogRec("file", prof, raw.rc, raw.out, raw.err), log_ok)
                   /\ registry' = Registered(registry,
                                      RegRec("file", prof, raw.rc = 0), reg_ok)
                   /\ bus' = b2
                   /\ IF PublishFails(done_ok)
                      THEN Raise("OSError: bus log") /\ result' = result
                      ELSE pc' = "returned" /\ exc' = exc /\ result' = res
    /\ UNCHANGED << rps, other, cfg_file, os_environ, modules, request, cfg, prof, policy, code_path,
                    wp, uuids, tmp, child, spawned, raw >>

\* the steps of the calling process
CallStep ==
    \/ SnippetBegin \/ SnippetReject \/ SnippetAccept
    \/ FileBegin \/ FileMissing \/ FileUnreadable \/ FileReject \/ FileAccept
    \/ WriteWrapper \/ Spawn \/ Timeout \/ Collect
    \/ SnippetFinish \/ FileFinish

\* the steps of the child process
ChildRun == ChildBoot \/ ChildGuard \/ ChildLoad \/ ChildStep \/ ChildEnd

Next == CallStep \/ ChildRun

Spec == Init /\ [][Next]_vars

\* every target and path, without the prompt and the unknown profile name,
\* which change the blocked sets and not the steps
FairRequests == { r \in Requests : ~r.prompt.given /\ r.profile \in {"", "analysis"} }

InitFair == InitWith(CfgFiles, InitEnvs, ModuleSets, FairRequests)

\* The calling process is sequential and its timer runs: each of its steps is
\* taken once it can be.  The child is promised nothing.
FairSpec == InitFair /\ [][Next]_vars /\ WF_vars(CallStep)

\* the same program from every parent environment
SpecEnv == InitEnv /\ [][Next]_vars

\* the same requests over every persisted configuration file
SpecCfg == InitCfg /\ [][Next]_vars

\* ------------------------------------------- a concurrent configuration edit

\* what an editor or another process may leave at CFG_PATH during a call
RewriteFiles == {CfgJson(PopenOverride), CfgJson(ImportsOverride)}

CfgRewrite ==
    /\ cfg_file' \in RewriteFiles \ {cfg_file}
    /\ UNCHANGED << rps, other, os_environ, modules, request, pc, cfg, prof, policy,
                    code_path, wp, uuids, tmp, child, spawned, raw, result, exc,
                    event_log, bus, heal_log, registry >>

RwRequests ==
    { r \in Requests :
        /\ r.profile \in {"", "analysis"} /\ ~r.prompt.given /\ r.code.pad = 0
        /\ r.code.stmt \in {St("print", "a"), St("import", "socket"),
                             St("indirect_call", "os.popen"), St("none", "")} }

InitRw == InitWith({CfgAbsent, CfgJson(PopenOverride)}, InitEnvs, {Collaborators},
                   RwRequests)

NextRw == CallStep \/ ChildRun \/ CfgRewrite

\* a call with the persisted file rewritten at any moment
SpecRw == InitRw /\ [][NextRw]_vars

\* ------------------------------------- gpt_chat_v3.run_python_script

\* run_python_script with the sandbox module imported: line 173 has called
\* run_file(script_path, profile=None), whose steps are the ones above.
RpsStart == [pc |-> "sandbox", direct |-> 0]

RpsFrame ==
    UNCHANGED << other, cfg_file, os_environ, modules, request, pc, cfg, prof, policy,
                 code_path, wp, uuids, tmp, child, spawned, raw, result, exc,
                 event_log, bus, heal_log, registry >>

\* lines 174-190: run_file returned, its result is passed on
RpsReturn ==
    /\ rps.pc = "sandbox" /\ pc = "returned"
    /\ rps' = [rps EXCEPT !.pc = "done"]
    /\ RpsFrame

\* lines 191-253: run_file raised, the exception is dropped and the script
\* goes to the direct spawn unless the path is missing or not allowed
RpsFallback ==
    /\ rps.pc = "sandbox" /\ pc = "raised"
    /\ \E allowed, popen_ok \in BOOLEAN :
          rps' = [rps EXCEPT !.pc = "done",
                             !.direct = IF request.path # "missing" /\ allowed /\ popen_ok
                                        THEN rps.direct + 1 ELSE rps.direct]
    /\ RpsFrame

\* the steps of a run_file call
FileCallStep ==
    \/ FileBegin \/ FileMissing \/ FileUnreadable \/ FileReject \/ FileAccept
    \/ WriteWrapper \/ Spawn \/ Timeout \/ Collect \/ FileFinish

RpsRequests ==
    { r \in Requests :
        /\ r.src = "file" /\ r.profile = "" /\ r.code.pad = 0
        /\ r.code.stmt \in {St("print", "a"), St("import", "socket"),
                             St("raise", "ValueError"), St("none", "")} }

InitRps == InitAll(CfgFiles, InitEnvs, ModuleSets, RpsRequests, {NoOther}, {RpsStart})

NextRps == FileCallStep \/ ChildRun \/ RpsReturn \/ RpsFallback

SpecRps == InitRps /\ [][NextRps]_vars

\* ------------------------------------------------- a concurrent second call

\* The second call is run_snippet(code) with no prompt and no profile, made
\* from another thread of the caller while the first is in flight.  It is
\* followed through TMP_DIR, uuid4, the bus and the event log, which the two
\* calls share; its writes to the bus and the logs succeed.

OtherPrograms == { [pad |-> 1, stmt |-> St("print", "a")],
                   [pad |-> 1, stmt |-> St("import", "socket")],
                   [pad |-> 0, stmt |-> St("import", "socket")] }

OtherCalls == { [NoOther EXCEPT !.pc = "idle", !.code = c] : c \in OtherPrograms }

OtherProfile == get_profile("", _load_cfg(cfg_file))
OtherPolicy == _policy_for_profile(OtherProfile, _load_cfg(cfg_file))

OtherFrame ==
    UNCHANGED << rps, os_environ, modules, request, pc, cfg, prof, policy, code_path, wp,
                 child, spawned, raw, result, exc, heal_log, registry >>

\* run_snippet, lines 234-265: the scan found something
OtherReject ==
    /\ other.pc = "idle"
    /\ ~Passes(preflight_check(Text(other.code), OtherPolicy))
    /\ cfg_file' = _load_cfg_file(cfg_file)
    /\ event_log' = _log_event(event_log,
                        LogRec("snippet", OtherProfile, 2, <<>>,
                               preflight_check(Text(other.code), OtherPolicy)), TRUE)
    /\ bus' = publish(publish(bus, Msg("code.run.start", "snippet", OtherProfile, 0)),
                      Msg("code.run.done", "snippet", OtherProfile, 2))
    /\ other' = [other EXCEPT !.pc = "returned", !.policy = OtherPolicy,
                               !.findings = preflight_check(Text(other.code), OtherPolicy)]
    /\ UNCHANGED << tmp, uuids >>
    /\ OtherFrame

\* run_snippet, lines 234-268: the scan found nothing, the snippet is written
OtherAccept ==
    /\ other.pc = "idle"
    /\ Passes(preflight_check(Text(other.code), OtherPolicy))
    /\ cfg_file' = _load_cfg_file(cfg_file)
    /\ bus' = publish(bus, Msg("code.run.start", "snippet", OtherProfile, 0))
    /\ \E w \in WriteOutcomes :
        LET path == TmpName("user", uuids)
        IN /\ uuids' = uuids + 1
           /\ tmp' = write_text(tmp, path, FileOf("user", other.code, NoWrapper), w)
           /\ other' = [other EXCEPT !.code_path = path, !.policy = OtherPolicy,
                                      !.pc = IF w = "ok" THEN "wrapper" ELSE "raised"]
    /\ UNCHANGED event_log
    /\ OtherFrame

\* _execute_user_code, lines 210-212
OtherWriteWrapper ==
    /\ other.pc = "wrapper"
    /\ \E w \in WriteOutcomes :
        LET path == TmpName("wrap", uuids)
            fs == write_text(tmp, path,
                      FileOf("wrap", NoProgram,
                             _wrapper_source(other.code_path, other.policy)), w)
        IN /\ uuids' = uuids + 1
           /\ tmp' = IF w = "ok" THEN fs ELSE unlink(fs, other.code_path)
           /\ other' = [other EXCEPT !.wp = path,
                                      !.pc = IF w = "ok" THEN "spawn" ELSE "raised"]
    /\ UNCHANGED << cfg_file, event_log, bus >>
    /\ OtherFrame

\* _execute_user_code, lines 215-222: the child starts on the wrapper file
OtherSpawn ==
    /\ other.pc = "spawn"
    /\ other' = [other EXCEPT !.pc = "boot",
                               !.wrapper = IF other.wp \in DOMAIN tmp
                                           THEN tmp[other.wp].wrapper ELSE NoWrapper]
    /\ UNCHANGED << cfg_file, tmp, uuids, event_log, bus >>
    /\ OtherFrame

\* the wrapper's runpy.run_path reads the target
OtherBoot ==
    /\ other.pc = "boot"
    /\ other' = [other EXCEPT !.pc = "wait",
                               !.ran = IF other.wrapper.path \in DOMAIN tmp
                                       THEN tmp[other.wrapper.path].code ELSE NoProgram]
    /\ UNCHANGED << cfg_file, tmp, uuids, event_log, bus >>
    /\ OtherFrame

\* _execute_user_code, lines 223-227: the child exited or was killed
OtherCollect ==
    /\ other.pc \in {"boot", "wait"}
    /\ tmp' = unlink(tmp, other.wp)
    /\ other' = [other EXCEPT !.pc = "finish"]
    /\ UNCHANGED << cfg_file, uuids, event_log, bus >>
    /\ OtherFrame

\* run_snippet, lines 272-317
OtherFinish ==
    /\ other.pc = "finish"
    /\ tmp' = unlink(tmp, other.code_path)
    /\ event_log' = _log_event(event_log,
                        LogRec("snippet", OtherProfile, 0, <<>>, <<>>), TRUE)
    /\ bus' = publish(bus, Msg("code.run.done", "snippet", OtherProfile, 0))
    /\ other' = [other EXCEPT !.pc = "returned"]
    /\ UNCHANGED << cfg_file, uuids >>
    /\ OtherFrame

OtherStep ==
    \/ OtherReject \/ OtherAccept \/ OtherWriteWrapper \/ OtherSpawn \/ OtherBoot
    \/ OtherCollect \/ OtherFinish

ParRequests ==
    { r \in Requests :
        /\ r.profile = "" /\ ~r.prompt.given /\ r.code.pad = 0
        /\ r.code.stmt \in {St("print", "a"), St("import", "socket"), St("none", "")} }

InitPar == InitCall({CfgAbsent}, InitEnvs, {Collaborators}, ParRequests, OtherCalls)

NextPar == CallStep \/ ChildRun \/ OtherStep

\* two calls in flight, interleaved in every order
SpecPar == InitPar /\ [][NextPar]_vars

\* =============================================================== claims

Done == pc \in {"returned", "raised"}

\* the preflight scan of the request ran and found something
Scanned == pc # "idle" /\ request.path # "missing" /\ request.path # "dir"
ViolationsFound == Scanned /\ preflight_check(Text(request.code), policy) # <<>>

\* C1: a request whose preflight scan finds a violation never spawns a child,
\* never gets past the scan, and the result it returns has ok = false and
\* return code 2.
C1_ViolationIsTerminal ==
    ViolationsFound =>
        /\ spawned = 0
        /\ child = NoChild
        /\ pc \in {"preflight", "resolve", "returned", "raised"}
        /\ pc = "returned" => (~result.ok /\ result.returncode = 2)

C1_Witness ==
    /\ pc = "returned" /\ ViolationsFound
    /\ result.returncode = 2 /\ spawned = 0

\* the import statement a program is made of, with its 1-based line
ImportForms ==
    {"import", "import_after_comma", "from_import", "try_import",
     "try_import_after_comma"}
ImportLine(p) ==
    p.pad + (IF p.stmt.op \in {"try_import", "try_import_after_comma"} THEN 2 ELSE 1)

\* C2: every snippet that holds an import statement of a blocked module root,
\* in whatever form, is returned with ok = false, return code 2 and a
\* violation naming the module and the line of the statement.
C2_BlockedImportRejected ==
    ( /\ pc = "returned" /\ request.src = "snippet"
      /\ request.code.stmt.op \in ImportForms
      /\ request.code.stmt.a \in Range(policy.blocked_imports) )
    => /\ ~result.ok
       /\ result.returncode = 2
       /\ \E i \in 1..Len(result.stderr) :
             result.stderr[i] = RawRec("SandboxViolation: blocked import",
                                       request.code.stmt.a,
                                       ImportLine(request.code), "")

\* C3: a returned result has ok = true exactly when its return code is 0 and
\* the scan found no violation.
C3_OkIffCleanExit ==
    pc = "returned" =>
        (result.ok <=> (result.returncode = 0 /\ ~ViolationsFound))

C3_Witness ==
    /\ pc = "returned" /\ result.ok /\ result.returncode = 0
    /\ child.st = "exited"

\* C4: the only exceptions a call raises to its caller are failures to write
\* a temporary artifact.
C4_OnlyStorageFailureRaises ==
    pc = "raised" => exc \in {"OSError: write snippet", "OSError: write wrapper"}

\* C5: when the call has returned or raised, no temporary artifact of it
\* exists.
C5_NoArtifactLeft == Done => DOMAIN tmp = {}

\* C6: every call comes back to its caller (with a result, or with one of
\* the exceptions C4 is about), whatever the target does; the wait for the
\* child never ends on a live child without killing it, and a call that
\* killed its child returns ok = false with return code 124.
C6_AlwaysComesBack ==
    /\ <>Done
    /\ []( (pc = "returned" /\ child.st = "killed")
             => (~result.ok /\ result.returncode = 124) )
    /\ [][ (pc = "wait" /\ pc' = "finish" /\ child.st \in {"boot", "run"})
             => child'.st = "killed" ]_vars

C6_Witness ==
    /\ pc = "returned" /\ request.code.stmt.op = "loop"
    /\ child.st = "killed" /\ child.ip = request.code.pad + 1
    /\ result.returncode = 124

\* C7: a child that has begun to run the target has the address-space and the
\* CPU-time ceilings set.
C7_CeilingsBeforeTarget ==
    child.st \in {"run", "exited", "killed"} /\ child.ip >= 1
        => {"RLIMIT_AS", "RLIMIT_CPU"} \subseteq child.limits

\* C8: the result of a timed-out run has return code 124, the Timeout marker
\* in its error stream, and what the child had written to stdout and stderr.
C8_TimeoutKeepsPartialOutput ==
    (pc = "returned" /\ child.st = "killed") =>
        /\ result.returncode = 124
        /\ \E i \in 1..Len(result.stderr) : result.stderr[i].kind = "Timeout after"
        /\ result.stdout = child.out
        /\ \A i \in 1..Len(child.err) :
              \E j \in 1..Len(result.stderr) : result.stderr[j] = child.err[i]

\* the names C9 lets through, written out
SafeName(k) ==
    \/ k \in { <<"P", "A", "T", "H">>, <<"H", "O", "M", "E">>, <<"L", "A", "N", "G">> }
    \/ (Len(k) >= 3 /\ k[1] = "L" /\ k[2] = "C" /\ k[3] = "_")
AgreeOnSafe(e1, e2) ==
    \A k \in (DOMAIN e1) \cup (DOMAIN e2) :
        SafeName(k) => (k \in DOMAIN e1 /\ k \in DOMAIN e2 /\ e1[k] = e2[k])

\* C9: the child's environment holds the parent's PATH, HOME, LANG and LC_*
\* variables with the parent's values, PYTHONUNBUFFERED, and nothing else; a
\* parent environment that agrees on those variables gives the same child
\* environment.
C9_MinimalEnv ==
    child.st # "none" =>
        /\ \A k \in DOMAIN child.env : SafeName(k) \/ k = N_PYTHONUNBUFFERED
        /\ \A k \in DOMAIN os_environ :
              SafeName(k) => (k \in DOMAIN child.env /\ child.env[k] = os_environ[k])
        /\ N_PYTHONUNBUFFERED \in DOMAIN child.env
        /\ \A e \in AllEnvs :
              AgreeOnSafe(os_environ, e) => NewChild(child.wrapper, e).env = child.env

C9_Witness ==
    /\ child.st = "run"
    /\ N_API_KEY \in DOMAIN os_environ /\ N_LANGUAGE \in DOMAIN os_environ
    /\ N_LC_ALL \in DOMAIN child.env
    /\ N_API_KEY \notin DOMAIN child.env

\* the target reached its call of c through indirection
IndirectCallOf(c) ==
    /\ request.code.stmt = St("indirect_call", c)
    /\ child.st \in {"run", "exited"} /\ child.ip >= request.code.pad + 1
    /\ (child.st = "run" => child.ip > request.code.pad + 1)

\* C10: an indirect call of any callable named in the policy's blocked_calls
\* is not performed, and the run returns 1 or 2 with the blocked-call marker
\* in its error stream.
C10_IndirectCallStopped ==
    \A c \in Range(policy.blocked_calls) :
        /\ c \notin child.performed
        /\ (pc = "returned" /\ IndirectCallOf(c)) =>
              /\ result.returncode \in {1, 2}
              /\ \E i \in 1..Len(result.stderr) :
                    /\ result.stderr[i].kind = "SandboxViolation: blocked call"
                    /\ result.stderr[i].name = c

\* the profiles the loaded configuration holds blocked sets for
KnownProfiles ==
    LET po == Get(cfg.v, "policy_overrides", Dict(<<>>))
    IN IF IsDict(po) THEN DOMAIN po.v ELSE {}

\* the call got past the resolution of its profile and policy
Resolved == pc \notin {"idle", "raised"}

\* C11: a call given the name of a known profile works with that profile's
\* blocked sets and reports that name in its result, with or without a prompt.
C11_GivenProfileUsed ==
    (Resolved /\ request.profile # "" /\ request.profile \in KnownProfiles) =>
        /\ prof = request.profile
        /\ policy = _policy_for_profile(request.profile, cfg)
        /\ (pc = "returned" => result.profile = request.profile)

\* C12: the profile a call works with is a known profile; a name that is not
\* known is replaced by the default, and no child runs under the blocked sets
\* of an unknown name.
C12_ActiveProfileKnown ==
    Resolved =>
        /\ prof \in KnownProfiles
        /\ (request.profile \notin KnownProfiles =>
               policy = _policy_for_profile(get_profile("", cfg), cfg))
        /\ (child.st # "none" => request.profile \in KnownProfiles \cup {""})

\* a run_snippet call that came with a prompt
Hinted == request.src = "snippet" /\ request.prompt.given

\* the blocked sets of the same call made without the prompt, under the
\* profile the result reports
HintlessPolicy == _policy_for_profile(get_profile(prof, cfg), cfg)

\* C13: a run_snippet call with a prompt, whether the prompt analysis gave a
\* profile or failed, works with the blocked sets of the profile it reports:
\* its wrapper embeds them and installs the finder before the target runs,
\* and a source the scan rejects under that profile without the prompt is
\* rejected, unspawned, with it.
C13_HintKeepsPolicy ==
    (Hinted /\ Resolved) =>
        /\ policy = _policy_for_profile(prof, cfg)
        /\ (pc = "returned" => result.profile = prof)
        /\ (preflight_check(Text(request.code), HintlessPolicy) # <<>> =>
               /\ spawned = 0
               /\ (pc = "returned" => (~result.ok /\ result.returncode = 2)))
        /\ (child.st # "none" =>
               /\ child.wrapper.blocked = Range(HintlessPolicy.blocked_imports)
               /\ child.wrapper.calls = Range(HintlessPolicy.blocked_calls)
               /\ child.wrapper.path = code_path)
        /\ (child.st = "run" => child.finder)

C13_Witness ==
    /\ Hinted /\ pc = "returned" /\ "intelligence" \in modules
    /\ request.profile = "" /\ result.profile = "analysis"
    /\ request.code.stmt = St("import", "matplotlib")
    /\ child.st = "exited" /\ child.wrapper.blocked = {"tkinter", "pygame", "socket"}

ConfigErrors == {"OSError: write config", "AttributeError", "ValueError"}

\* the configuration was loaded
Loaded == pc # "idle" /\ ~(pc = "raised" /\ exc = "OSError: write config")

\* a persisted file that is unparsable, not an object, or holds a value of
\* the wrong shape
WrongShape(file) ==
    \/ file.state = "malformed"
    \/ /\ file.state = "json"
       /\ \/ ~IsDict(file.data)
          \/ /\ "policy_overrides" \in DOMAIN file.data.v
             /\ ~IsDict(file.data.v["policy_overrides"])
          \/ /\ "exec_timeout_sec" \in DOMAIN file.data.v
             /\ file.data.v["exec_timeout_sec"].t # "int"

\* C15: whatever the persisted file holds, no call raises because of it; a
\* missing file has been created with the defaults once the configuration is
\* loaded, and a malformed file gives the call the built-in defaults.
C15_ConfigNeverRaises ==
    /\ (pc = "raised" => exc \notin ConfigErrors)
    /\ (Loaded => cfg_file.state # "absent")
    /\ ((Loaded /\ WrongShape(cfg_file)) => cfg = DEFAULT_CFG)

\* the defaults an override leaves alone, at every depth
RECURSIVE KeptDefaults(_, _, _)
KeptDefaults(dflt, over, merged) ==
    /\ \A k \in DOMAIN dflt :
          /\ k \in DOMAIN merged
          /\ IF k \notin DOMAIN over THEN merged[k] = dflt[k]
             ELSE IF IsDict(dflt[k]) /\ IsDict(over[k])
                  THEN IsDict(merged[k]) /\ KeptDefaults(dflt[k].v, over[k].v, merged[k].v)
                  ELSE merged[k] = over[k]
    /\ \A k \in (DOMAIN over) \ (DOMAIN dflt) : k \in DOMAIN merged /\ merged[k] = over[k]

\* C16: the configuration loaded from a persisted object differs from the
\* defaults only at the leaves the object names, at every depth; an empty
\* object gives exactly the defaults.
C16_MergeKeepsUnnamedDefaults ==
    (Loaded /\ cfg_file.state = "json" /\ IsDict(cfg_file.data)) =>
        /\ IsDict(cfg)
        /\ KeptDefaults(DEFAULT_CFG.v, cfg_file.data.v, cfg.v)
        /\ (cfg_file.data = Dict(<<>>) => cfg = DEFAULT_CFG)

C16_Witness ==
    /\ Loaded /\ cfg_file = CfgJson(ImportsOverride)
    /\ cfg.v["policy_overrides"].v["analysis"].v["blocked_imports"] = List(<<"socket">>)
    /\ cfg.v["policy_overrides"].v["analysis"].v["blocked_calls"] = List(<<"os.system">>)
    /\ cfg.v["policy_overrides"].v["headless"] = DEFAULT_CFG.v["policy_overrides"].v["headless"]
    /\ pc = "returned"

\* C17: a returned result has return code 124 exactly when the call killed
\* its child on the wall-clock timeout; a target that ended on its own never
\* gives 124.
C17_TimeoutCodeReserved ==
    pc = "returned" =>
        /\ (result.returncode = 124 <=> child.st = "killed")
        /\ (child.st = "exited" => result.returncode # 124)

\* C18: a call never spawns a second child; a child is spawned only for a
\* request whose path exists and whose scan found nothing, and a call that
\* returns has spawned exactly one child in that case and none otherwise.
C18_OneChildPerRequest ==
    /\ spawned <= 1
    /\ (spawned = 0 <=> child = NoChild)
    /\ (spawned = 1 => (Scanned /\ ~ViolationsFound))
    /\ (pc = "returned" =>
           spawned = IF request.path = "missing" \/ ViolationsFound THEN 0 ELSE 1)

C18_Witness ==
    /\ pc = "returned" /\ spawned = 1
    /\ child.st = "exited" /\ child.rc = 1 /\ result.returncode = 1
    /\ "auto_heal" \in modules /\ heal_log # <<>>

\* the step on which a call returns its result
ReturnStep == pc # "returned" /\ pc' = "returned"

\* C20: on the step a call returns, the event log gains exactly one record,
\* its first, with the source kind of the request and the profile and return
\* code of the result, or gains nothing because the append failed; the
\* result is the same in both cases.
C20_OneLogRecord ==
    [][ ReturnStep =>
          /\ event_log = <<>>
          /\ \/ event_log' = <<>>
             \/ /\ Len(event_log') = 1
                /\ event_log'[1].src = request.src
                /\ event_log'[1].profile = result'.profile
                /\ event_log'[1].returncode = result'.returncode
          /\ result'.set
          /\ result'.profile = prof
          /\ result'.returncode = (IF pc = "finish" THEN raw.rc ELSE 2) ]_vars

C20_Witness ==
    /\ pc = "returned" /\ Len(event_log) = 1
    /\ event_log[1].returncode = 1 /\ result.returncode = 1
    /\ event_log[1].profile = result.profile /\ event_log[1].src = "file"

\* the temporary artifacts each call named
TempPaths(paths) == { q \in paths : q[1] \in {"user", "wrap"} }
MainTemps == TempPaths({code_path, wp})
OtherTemps == TempPaths({other.code_path, other.wp})

\* C19: with two calls in flight, in every interleaving, the calls name
\* different temporary files; while a call needs its snippet file and its
\* wrapper file they exist with the content that call wrote, so that neither
\* call overwrote or removed the other's; and each child ran the source of
\* its own request.
C19_CallsDoNotInterfere ==
    /\ MainTemps \cap OtherTemps = {}
    /\ ((request.src = "snippet" /\ pc \in {"wrapper", "spawn", "wait", "finish"}) =>
           (code_path \in DOMAIN tmp
            /\ tmp[code_path] = FileOf("user", request.code, NoWrapper)))
    /\ (pc \in {"spawn", "wait"} =>
           (wp \in DOMAIN tmp
            /\ tmp[wp] = FileOf("wrap", NoProgram, _wrapper_source(code_path, policy))))
    /\ (other.pc \in {"wrapper", "spawn", "boot", "wait", "finish"} =>
           (other.code_path \in DOMAIN tmp
            /\ tmp[other.code_path] = FileOf("user", other.code, NoWrapper)))
    /\ (other.pc \in {"spawn", "boot", "wait"} =>
           (other.wp \in DOMAIN tmp
            /\ tmp[other.wp].wrapper.path = other.code_path))
    /\ (child.st \in {"run", "exited"} => child.code = request.code)
    /\ (other.pc \in {"wait", "finish", "returned"} /\ other.wp # NoPath
           => other.ran \in {other.code, NoProgram})
    /\ (other.pc = "wait" => other.ran = other.code)

C19_Witness ==
    /\ request.src = "snippet" /\ pc = "wait" /\ child.st = "run"
    /\ other.pc = "wait" /\ other.ran = other.code
    /\ Cardinality(DOMAIN tmp) = 4
    /\ child.code # other.ran

\* what the scan of each call gave, once the call shows it
MainScanned == pc = "returned" /\ request.path \notin {"missing", "dir"}
MainFindings == IF spawned = 0 THEN result.stderr ELSE <<>>
OtherScanned == other.pc \notin {"none", "idle"}

EndedByFailure ==
    /\ child.st = "exited"
    /\ child.ip <= Len(Body(child.code))
    /\ Body(child.code)[child.ip].op # "sys_exit"

\* C22: a child whose target ended on an uncaught failure exits with 2
\* exactly when the failure is the interceptor's blocked-import error, and
\* with 1 for every other failure, a missing module included.
C22_ExitTwoOnlyForBlockedImport ==
    EndedByFailure =>
        /\ child.rc \in {1, 2}
        /\ (child.rc = 2 <=>
               (child.err # <<>>
                /\ child.err[Len(child.err)].kind = "SandboxViolation: blocked import"))

\* the target's statement is an import of a blocked root and has been executed
PlainImports == {"import", "import_after_comma", "from_import", "dyn_import"}
GuardedImports == {"try_import", "try_import_after_comma"}
BlockedImportExecuted(forms) ==
    /\ child.st \in {"run", "exited"}
    /\ child.code.stmt.op \in forms
    /\ Root(child.code.stmt.a) \in child.wrapper.blocked
    /\ (child.st = "exited" \/ child.ip > child.code.pad + 1)

\* C23: in a running child every import of a module whose root is blocked
\* fails with the blocked-import error, dynamic imports and modules the
\* wrapper loaded for itself included, and the interceptor rejects no module
\* whose root is not blocked.
C23_BlockedRootNeverImported ==
    /\ (BlockedImportExecuted(PlainImports) =>
           /\ child.st = "exited" /\ child.rc = 2
           /\ child.err # <<>>
           /\ child.err[Len(child.err)] =
                 RawRec("SandboxViolation: blocked import", Root(child.code.stmt.a), 0, ""))
    /\ (BlockedImportExecuted(GuardedImports) =>
           child.code.stmt.a \notin child.sys_modules)
    /\ \A i \in 1..Len(child.err) :
          child.err[i].kind = "SandboxViolation: blocked import"
              => child.err[i].name \in child.wrapper.blocked

\* C24: in every child the finder is installed before the blocked callables
\* are replaced, and both before the target's first statement: a child that
\* has begun the target, or produced any effect of it, has both guards.
C24_GuardsBeforeTarget ==
    /\ (child.guarded => child.finder)
    /\ (child.ip >= 1 =>
           /\ child.finder /\ child.guarded
           /\ child.replaced = Replaced(child.wrapper.calls))
    /\ (~(child.finder /\ child.guarded) =>
           /\ child.ip = 0 /\ child.out = <<>> /\ child.err = <<>>
           /\ child.performed = {} /\ child.code = NoProgram)

C24_Witness ==
    /\ child.st = "run" /\ child.ip = 2 /\ child.out # <<>>
    /\ child.finder /\ child.guarded /\ child.replaced = {"os.system"}

\* C25: a child whose target ended on an uncaught exception of any kind exits
\* with a nonzero code and has some non-empty text on its error stream.
C25_FailureIsVisible ==
    (child.st = "exited" /\ child.ip <= Len(Body(child.code))) =>
        /\ child.rc # 0
        /\ \E i \in 1..Len(child.err) : child.err[i] # EmptyLine

\* the result carries a remediation hint
Hinting == pc = "returned" /\ result.valid = "False" /\ result.suggestion # ""

\* C26: the hint attached to a failed result names the kind of failure: the
\* timeout hint for a run that was killed on the timeout, the
\* missing-dependency hint for a module that could not be found, the syntax
\* hint for a syntax error.
C26_HintMatchesFailure ==
    Hinting =>
        /\ ((child.st = "killed" /\ result.returncode = 124) =>
               result.suggestion = "timeout")
        /\ ((\E i \in 1..Len(result.stderr) : result.stderr[i].kind = "No module named") =>
               result.suggestion = "missing")
        /\ ((\E i \in 1..Len(result.stderr) : result.stderr[i].exc = "SyntaxError") =>
               result.suggestion = "syntax")

\* C27: a call resolves its configuration and policy once, from the file as
\* it is when the call starts; from then on they do not change, whatever is
\* written to the file, and the sets the scan used are the sets the wrapper
\* embeds.
C27_PolicyResolvedOnce ==
    /\ [](Resolved =>
            /\ policy = _policy_for_profile(prof, cfg)
            /\ (child.st # "none" =>
                   /\ child.wrapper.blocked = Range(policy.blocked_imports)
                   /\ child.wrapper.calls = Range(policy.blocked_calls))
            /\ (spawned = 1 => preflight_check(Text(request.code), policy) = <<>>)
            /\ ((pc = "returned" /\ spawned = 0 /\ request.path = "file") =>
                   result.stderr = preflight_check(Text(request.code), policy)))
    /\ [][pc # "idle" => (cfg' = cfg /\ prof' = prof /\ policy' = policy)]_vars
    /\ [][(pc = "idle" /\ pc' \notin {"idle", "raised"}) => cfg' = _load_cfg(cfg_file)]_vars

C27_Witness ==
    /\ child.st = "run" /\ pc = "wait" /\ prof = "headless"
    /\ child.wrapper.calls = {"os.system"}
    /\ cfg_file = CfgJson(PopenOverride)
    /\ _policy_for_profile(prof, _load_cfg(cfg_file)).blocked_calls # policy.blocked_calls

\* the positions of a topic in the bus history
Published(topic) == { i \in 1..Len(bus) : bus[i].topic = topic }

\* C28: with the bus present, a call that has returned published one
\* code.run.start and, after it, one code.run.done whose rc is the return
\* code of the result.
C28_OneStartOneDone ==
    (pc = "returned" /\ "BUS" \in modules) =>
        /\ Cardinality(Published("code.run.start")) = 1
        /\ Cardinality(Published("code.run.done")) = 1
        /\ \A i \in Published("code.run.start"), j \in Published("code.run.done") :
              /\ i < j
              /\ bus[j].rc = result.returncode
              /\ bus[j].src = request.src /\ bus[i].src = request.src

C28_Witness ==
    /\ pc = "returned" /\ "BUS" \in modules /\ request.src = "file"
    /\ result.returncode = 1
    /\ Len(bus) = 3 /\ bus[2].topic = "code.error" /\ bus[3].rc = 1

\* C29: with the repair collaborator present, a call that returns after its
\* child ended with a nonzero code (124 included) has handed it one failure
\* record, its first, naming the call's kind and that code (or, where the
\* collaborator's own write failed inside run_snippet's guard, has left its
\* log as it was); every other call that returns has handed none.
C29_OneFailureRecord ==
    [][ ReturnStep =>
          /\ heal_log = <<>>
          /\ IF "auto_heal" \in modules /\ pc = "finish" /\ raw.rc # 0
             THEN \/ heal_log' = <<[src |-> request.src, rc |-> result'.returncode]>>
                  \/ (heal_log' = <<>> /\ request.src = "snippet")
             ELSE heal_log' = <<>> ]_vars

C29_Witness ==
    /\ pc = "returned" /\ "auto_heal" \in modules /\ request.src = "file"
    /\ child.st = "killed" /\ result.returncode = 124
    /\ heal_log = <<[src |-> "file", rc |-> 124]>>

\* C30: one call of run_python_script with the sandbox available runs the
\* script at most once, never by the direct spawn, and the direct spawn is
\* not reached once the sandbox has run the script or rejected it.
C30_ScriptRunsOnceInSandbox ==
    rps.pc # "none" =>
        /\ spawned + rps.direct <= 1
        /\ rps.direct = 0
        /\ (rps.direct > 0 => (spawned = 0 /\ ~ViolationsFound))

====
